---- MODULE Spec2Model ----
(***************************************************************************)
(* The msocks session multiplexer (src/src/msocks/session.go): the stream  *)
(* table and its id allocator, the write serializer, the dispatch loop     *)
(* (Run), the SYN and DNS handlers, the keepalive monitor, the idle-close  *)
(* timer and Close.                                                        *)
(*                                                                         *)
(* Each goroutine is a process with a program counter; one action is one   *)
(* step of a goroutine between two points where another goroutine can      *)
(* observe or change the shared state (a lock acquisition, a map access    *)
(* made without the lock, a channel operation, a transport call).          *)
(* PutIntoId and RemovePorts take plock, act and release it in one step;   *)
(* PutIntoNextId holds plock across the iterations of its scan loop.       *)
(* A map access made without plock sees the table as it is between two     *)
(* locked operations.                                                      *)
(*                                                                         *)
(* A runtime fault that ends the process (Go's "concurrent map read and     *)
(* map write") is a behaviour that stops: the specifications have no        *)
(* fairness but where stated, so every prefix of a behaviour is one.        *)
(*                                                                         *)
(* Time is counted in ticks of half a ping interval.  The idle-close       *)
(* timer is abstracted to "pending, may fire at any later moment".         *)
(***************************************************************************)
EXTENDS Integers, Sequences, FiniteSets, TLC

\* ------------------------------------------------------------------ bounds
IdSpace == 2
QueueCap == 1
MaxChans == 3
MaxSyn == 1
MaxDns == 1
MaxOrphans == 1

\* ------------------------------------------------------- program constants
PINGTIME == 2
PingCap == 3
Nil == 0

Deadline == 6 * PINGTIME
SilenceCap == Deadline + PINGTIME

Ids == 0 .. (IdSpace - 1)
ChanIds == 1 .. MaxChans
StreamKinds == {"DATA", "FIN"}
Sentinel == "nil"
NoOne == <<"none", 0>>

VARIABLES
    ports,      \* s.ports: stream id -> Nil (reserved) or a channel
    next_id,    \* s.next_id
    plock,      \* s.plock is held (by PutIntoNextId, across its scan)
    idleclose,  \* s.idleclose: "nil", or the state of the timer it names
    orphans,    \* pending idle-close timers s.idleclose no longer names
    conn,       \* the transport: "open", "wfail" (writes fail), "closed"
    flock,      \* holder of s.flock
    chans,      \* channel -> the frames queued in it
    ch_ping,    \* number of signals buffered in s.ch_ping
    run,        \* the dispatch loop
    keep,       \* the keepalive monitor
    kt,         \* ticks since the monitor's current timer was started
    silence,    \* ticks since the monitor last received a signal
    user,       \* a local caller of the session's API
    syn,        \* the connect goroutines started by on_syn
    dns,        \* the goroutines started by on_dns
    closing     \* caller -> its progress in Close()

vars == <<ports, next_id, plock, idleclose, orphans, conn, flock, chans,
          ch_ping, run, keep, kt, silence, user, syn, dns, closing>>

tableVars == <<ports, next_id, plock, idleclose, orphans>>
timeVars == <<kt, silence>>

\* ---------------------------------------------------------------- helpers
Min(a, b) == IF a < b THEN a ELSE b

EmptyChan == <<>>
IdleSyn == [pc |-> "idle", id |-> 0, ch |-> Nil]
NoFrame == [type |-> "none"]
IdleDns == [pc |-> "idle", id |-> 0, failed |-> FALSE, frame |-> NoFrame]
IdleUser == [pc |-> "idle", start |-> 0, ch |-> Nil]
Closers == {"run", "keep", "user"}
NotClosing == [pc |-> "off", todo |-> {}, seen |-> {}, cur |-> Nil]

\* The channels some goroutine or the table still refers to.
Referenced(p, s, u, cl) ==
    {p[i] : i \in DOMAIN p} \cup {s[h].ch : h \in DOMAIN s} \cup {u.ch}
        \cup {cl[w].cur : w \in DOMAIN cl}

FreeChans == ChanIds \ Referenced(ports, syn, user, closing)

\* make(chan Frame, CHANLEN): the lowest channel nothing refers to.
NewChan == CHOOSE c \in FreeChans : \A d \in FreeChans : c <= d

\* Channels nothing refers to any more are forgotten (reset to empty).
Collect(ch, p, s, u, cl) ==
    [c \in ChanIds |-> IF c \in Referenced(p, s, u, cl) THEN ch[c] ELSE EmptyChan]

\* s.ports[id] = ch
MapPut(p, id, ch) == [i \in DOMAIN p \cup {id} |-> IF i = id THEN ch ELSE p[i]]

\* delete(s.ports, id)
MapDelete(p, id) == [i \in DOMAIN p \ {id} |-> p[i]]

PlockFree == ~plock

FlockFreeAlways == TRUE

FlockFree == flock = NoOne

\* ------------------------------------------------------------ stream table
\* time.AfterFunc(IDLECLOSE, ...) assigned to s.idleclose: the timer the
\* field named before stays pending, and nothing names it any more.
ArmIdle ==
    /\ idleclose = "pending" => orphans < MaxOrphans
    /\ idleclose' = "pending"
    /\ orphans' = IF idleclose = "pending" THEN orphans + 1 ELSE orphans

\* RemovePorts(streamid), under plock; the error is RemoveFails(streamid).
RemoveFails(id) == id \notin DOMAIN ports

RemovePorts(id) ==
    /\ PlockFree
    /\ ports' = IF id \in DOMAIN ports THEN MapDelete(ports, id) ELSE ports
    /\ IF DOMAIN ports' = {} THEN ArmIdle ELSE UNCHANGED <<idleclose, orphans>>
    /\ UNCHANGED <<next_id, plock>>

\* PutIntoId(id, ch), under plock.
PutIntoId(id, ch) ==
    /\ PlockFree
    /\ ports' = MapPut(ports, id, ch)
    /\ UNCHANGED <<next_id, plock, idleclose, orphans>>

\* The idle-close timer's function runs: s.conn.Close().
IdleFire ==
    /\ \/ idleclose = "pending" /\ idleclose' = "fired" /\ UNCHANGED orphans
       \/ orphans > 0 /\ orphans' = orphans - 1 /\ UNCHANGED idleclose
    /\ conn' = "closed"
    /\ UNCHANGED <<ports, next_id, plock, flock, chans, ch_ping, run, keep,
                   kt, silence, user, syn, dns, closing>>

\* ------------------------------------------------------------ local caller
\* PutIntoNextId(ch): lock, startid := s.next_id.
UserAllocBegin ==
    /\ user.pc = "idle"
    /\ PlockFree
    /\ FreeChans # {}
    /\ plock' = TRUE
    /\ user' = [pc |-> "scan", start |-> next_id, ch |-> NewChan]
    /\ UNCHANGED <<ports, next_id, idleclose, orphans, conn, flock, chans,
                   ch_ping, run, keep, kt, silence, syn, dns, closing>>

\* _, ok := s.ports[s.next_id]
IdTakenNever == FALSE

IdTaken == next_id \in DOMAIN ports

\* if s.next_id == startid
BackAtStartNever(n) == FALSE

BackAtStart(n) == n = user.start

\* One evaluation of the loop condition of PutIntoNextId and what follows it:
\* an iteration of the loop (possibly the error return), or the insertion.
UserAllocScan ==
    /\ user.pc = "scan"
    /\ IF IdTaken
       THEN /\ next_id' = (next_id + 1) % IdSpace
            /\ IF BackAtStart(next_id')
               THEN /\ plock' = FALSE
                    /\ user' = IdleUser
               ELSE UNCHANGED <<plock, user>>
            /\ UNCHANGED <<ports, idleclose>>
       ELSE /\ ports' = MapPut(ports, next_id, user.ch)
            /\ next_id' = (next_id + 1) % IdSpace
            /\ idleclose' = "nil"
            /\ plock' = FALSE
            /\ user' = IdleUser
    /\ chans' = Collect(chans, ports', syn, user', closing)
    /\ UNCHANGED <<orphans, conn, flock, ch_ping, run, keep, kt, silence,
                   syn, dns, closing>>

\* A stream's owner calls RemovePorts(id).
UserRemove(id) ==
    /\ user.pc = "idle"
    /\ RemovePorts(id)
    /\ chans' = Collect(chans, ports', syn, user, closing)
    /\ UNCHANGED <<conn, flock, ch_ping, run, keep, kt, silence, user, syn,
                   dns, closing>>

\* --------------------------------------------------------- write serializer
\* Session.Write: s.flock.Lock() ... s.conn.Write(b) ... s.flock.Unlock().
\* A caller is inside conn.Write from FlockLock to FlockUnlock.
FlockLock(who) ==
    /\ FlockFree
    /\ flock' = who

FlockUnlock(who) ==
    /\ flock' = IF flock = who THEN NoOne ELSE flock

\* conn.Write returns no error and n = len(b).
WriteOk == conn = "open"

\* The transport starts to fail writes (reset by peer, short write).
ConnFail ==
    /\ conn = "open"
    /\ conn' = "wfail"
    /\ UNCHANGED <<ports, next_id, plock, idleclose, orphans, flock, chans,
                   ch_ping, run, keep, kt, silence, user, syn, dns, closing>>

\* -------------------------------------------------------------------- Close
\* Close(): for _, v := range s.ports { v <- nil }; then s.conn.Close().
\* todo: the entries of the table at the start of the range not reached yet;
\* seen: the entries the range has produced.
CloseStart(p) == [pc |-> "range", todo |-> DOMAIN p, seen |-> {}, cur |-> Nil]

\* The queues are made by the streams' owners (make(chan Frame, CHANLEN)).
\* The first one has room for one frame more than the others, so that the
\* order of the frames in a queue shows.
Capacity(c) == IF c = 1 THEN QueueCap + 1 ELSE QueueCap

\* case ch <- f: the send can proceed (never on a nil channel).
HasRoom(c) == c # Nil /\ Len(chans[c]) < Capacity(c)

EnqueueFront(ch, c, f) == [ch EXCEPT ![c] = <<f>> \o @]

\* ch <- f
Enqueue(ch, c, f) == [ch EXCEPT ![c] = Append(@, f)]

\* The range produces an entry: one of the start that is still in the table,
\* or one created since (the range may produce it or skip it); an entry of
\* the start that was deleted is not produced.  The entry is sent the
\* sentinel, at once when its queue takes it, else the caller blocks in the
\* send.
CloseNext(w) ==
    /\ closing[w].pc = "range"
    /\ \E id \in closing[w].todo \cup (DOMAIN ports \ closing[w].seen) :
         LET rest == closing[w].todo \ {id}
             done == closing[w].seen \cup {id} IN
         IF id \notin DOMAIN ports
         THEN /\ closing' = [closing EXCEPT ![w].todo = rest]
              /\ UNCHANGED chans
         ELSE IF HasRoom(ports[id])
         THEN /\ closing' = [closing EXCEPT ![w].todo = rest, ![w].seen = done]
              /\ chans' = Enqueue(chans, ports[id], Sentinel)
         ELSE /\ closing' = [closing EXCEPT ![w] =
                     [pc |-> "send", todo |-> rest, seen |-> done,
                      cur |-> ports[id]]]
              /\ UNCHANGED chans
    /\ UNCHANGED <<ports, next_id, plock, idleclose, orphans, conn, flock,
                   ch_ping, run, keep, kt, silence, user, syn, dns>>

\* The blocked send v <- nil goes through (never on a nil channel).
CloseSend(w) ==
    /\ closing[w].pc = "send"
    /\ HasRoom(closing[w].cur)
    /\ closing' = [closing EXCEPT ![w].pc = "range", ![w].cur = Nil]
    /\ chans' = Collect(Enqueue(chans, closing[w].cur, Sentinel),
                        ports, syn, user, closing')
    /\ UNCHANGED <<ports, next_id, plock, idleclose, orphans, conn, flock,
                   ch_ping, run, keep, kt, silence, user, syn, dns>>

\* The range is over: the deferred s.conn.Close(), and Close returns.
CloseEnd(w) ==
    /\ closing[w].pc = "range"
    /\ closing[w].todo = {}
    /\ closing' = [closing EXCEPT ![w].pc = "done"]
    /\ conn' = "closed"
    /\ IF w = "run" THEN run' = [pc |-> "done", id |-> 0] ELSE UNCHANGED run
    /\ IF w = "keep" THEN keep' = "done" ELSE UNCHANGED keep
    /\ UNCHANGED <<ports, next_id, plock, idleclose, orphans, flock, chans,
                   ch_ping, kt, silence, user, syn, dns>>

\* An external caller calls Close().
UserClose ==
    /\ user.pc = "idle"
    /\ closing["user"].pc = "off"
    /\ closing' = [closing EXCEPT !["user"] = CloseStart(ports)]
    /\ UNCHANGED <<ports, next_id, plock, idleclose, orphans, conn, flock,
                   chans, ch_ping, run, keep, kt, silence, user, syn, dns>>

\* A stream's consumer receives the frame at the head of its queue.
ConsumerRecv(c) ==
    /\ chans[c] # <<>>
    /\ chans' = [chans EXCEPT ![c] = Tail(@)]
    /\ UNCHANGED <<ports, next_id, plock, idleclose, orphans, conn, flock,
                   ch_ping, run, keep, kt, silence, user, syn, dns, closing>>

\* ------------------------------------------------------------ dispatch loop
FreeSyn == {h \in DOMAIN syn : syn[h].pc = "idle"}
NewSyn == CHOOSE h \in FreeSyn : \A g \in FreeSyn : h <= g
FreeDns == {d \in DOMAIN dns : dns[d].pc = "idle"}
NewDns == CHOOSE d \in FreeDns : \A e \in FreeDns : d <= e

\* Run returns: the deferred s.Close() starts.
RunExit(p) ==
    /\ run' = [pc |-> "close", id |-> 0]
    /\ closing' = [closing EXCEPT !["run"] = CloseStart(p)]

\* ReadFrame fails (always on a closed transport), or the frame's type is
\* not one of the switch.
RunReadErr ==
    /\ run.pc = "read"
    /\ RunExit(ports)
    /\ UNCHANGED <<ports, next_id, plock, idleclose, orphans, conn, flock,
                   chans, ch_ping, keep, kt, silence, user, syn, dns>>

RunRouteAbsentRemoves(k, id) ==
    /\ run.pc = "read"
    /\ conn # "closed"
    /\ IF id \in DOMAIN ports /\ HasRoom(ports[id])
       THEN /\ chans' = Enqueue(chans, ports[id], k)
            /\ UNCHANGED run
       ELSE /\ run' = [pc |-> "remove", id |-> id]
            /\ UNCHANGED chans
    /\ UNCHANGED <<ports, next_id, plock, idleclose, orphans, conn, flock,
                   ch_ping, keep, kt, silence, user, syn, dns, closing>>

\* A stream-scoped frame: sendFrameInChan up to its select.
RunRoute(k, id) ==
    /\ run.pc = "read"
    /\ conn # "closed"
    /\ IF id \notin DOMAIN ports
       THEN UNCHANGED <<run, chans>>
       ELSE IF HasRoom(ports[id])
       THEN /\ chans' = Enqueue(chans, ports[id], k)
            /\ UNCHANGED run
       ELSE /\ run' = [pc |-> "remove", id |-> id]
            /\ UNCHANGED chans
    /\ UNCHANGED <<ports, next_id, plock, idleclose, orphans, conn, flock,
                   ch_ping, keep, kt, silence, user, syn, dns, closing>>

RunRemoveAlwaysExits ==
    /\ run.pc = "remove"
    /\ RemovePorts(run.id)
    /\ RunExit(ports')
    /\ chans' = Collect(chans, ports', syn, user, closing')
    /\ UNCHANGED <<conn, flock, ch_ping, keep, kt, silence, user, syn, dns>>

\* The default branch of sendFrameInChan: return s.RemovePorts(streamid) == nil.
RunRemove ==
    /\ run.pc = "remove"
    /\ RemovePorts(run.id)
    /\ IF RemoveFails(run.id)
       THEN RunExit(ports')
       ELSE /\ run' = [pc |-> "read", id |-> 0]
            /\ UNCHANGED closing
    /\ chans' = Collect(chans, ports', syn, user, closing')
    /\ UNCHANGED <<conn, flock, ch_ping, keep, kt, silence, user, syn, dns>>

\* A SYN frame: on_syn looks the id up (without plock).
RunSynCheck(id) ==
    /\ run.pc = "read"
    /\ conn # "closed"
    /\ IF id \in DOMAIN ports
       THEN run' = [pc |-> "syn_write", id |-> id]
       ELSE /\ FreeSyn # {}
            /\ run' = [pc |-> "syn_reserve", id |-> id]
    /\ UNCHANGED <<ports, next_id, plock, idleclose, orphans, conn, flock,
                   chans, ch_ping, keep, kt, silence, user, syn, dns, closing>>

\* on_syn: s.PutIntoId(ft.Streamid, nil); go func() {...}(); return true.
RunSynReserve ==
    /\ run.pc = "syn_reserve"
    /\ PutIntoId(run.id, Nil)
    /\ syn' = [syn EXCEPT ![NewSyn] = [pc |-> "connect", id |-> run.id, ch |-> Nil]]
    /\ run' = [pc |-> "read", id |-> 0]
    /\ chans' = Collect(chans, ports', syn', user, closing)
    /\ UNCHANGED <<conn, flock, ch_ping, keep, kt, silence, user, dns, closing>>

\* on_syn, id exists: s.Write(FAILED(id, ERR_IDEXIST)) takes flock.
RunSynWriteBegin ==
    /\ run.pc = "syn_write"
    /\ FlockLock(<<"run", 0>>)
    /\ run' = [run EXCEPT !.pc = "syn_io"]
    /\ UNCHANGED <<ports, next_id, plock, idleclose, orphans, conn, chans,
                   ch_ping, keep, kt, silence, user, syn, dns, closing>>

RunSynWriteEndIgnoresErr ==
    /\ run.pc = "syn_io"
    /\ FlockUnlock(<<"run", 0>>)
    /\ run' = [pc |-> "read", id |-> 0]
    /\ UNCHANGED <<ports, next_id, plock, idleclose, orphans, conn, chans,
                   ch_ping, keep, kt, silence, user, syn, dns, closing>>

\* The write returns: on_syn returns err == nil, and Run returns on false.
RunSynWriteEnd ==
    /\ run.pc = "syn_io"
    /\ FlockUnlock(<<"run", 0>>)
    /\ IF WriteOk
       THEN /\ run' = [pc |-> "read", id |-> 0]
            /\ UNCHANGED closing
       ELSE RunExit(ports)
    /\ UNCHANGED <<ports, next_id, plock, idleclose, orphans, conn, chans,
                   ch_ping, keep, kt, silence, user, syn, dns>>

\* A DNS frame: go s.on_dns(ft).
RunDns(id) ==
    /\ run.pc = "read"
    /\ conn # "closed"
    /\ FreeDns # {}
    /\ dns' = [dns EXCEPT ![NewDns] = [pc |-> "lookup", id |-> id, failed |-> FALSE, frame |-> NoFrame]]
    /\ UNCHANGED <<ports, next_id, plock, idleclose, orphans, conn, flock,
                   chans, ch_ping, run, keep, kt, silence, user, syn, closing>>

\* A PING frame: select { case s.ch_ping <- 1: default: }.
RunPing ==
    /\ run.pc = "read"
    /\ conn # "closed"
    /\ ch_ping' = Min(ch_ping + 1, PingCap)
    /\ UNCHANGED <<ports, next_id, plock, idleclose, orphans, conn, flock,
                   chans, run, keep, kt, silence, user, syn, dns, closing>>

\* -------------------------------------------------------------- SYN handler
\* ch, err := s.on_conn("tcp", ft.Address, ft.Streamid): the callback returns
\* a new queue, or an error.
SynConnect(h) ==
    /\ syn[h].pc = "connect"
    /\ \/ /\ FreeChans # {}
          /\ syn' = [syn EXCEPT ![h].pc = "bind", ![h].ch = NewChan]
       \/ syn' = [syn EXCEPT ![h].pc = "fail_write"]
    /\ UNCHANGED <<ports, next_id, plock, idleclose, orphans, conn, flock,
                   chans, ch_ping, run, keep, kt, silence, user, dns, closing>>

SynBindForgets(h) ==
    /\ syn[h].pc = "bind"
    /\ PlockFree
    /\ syn' = [syn EXCEPT ![h].pc = "ok_write"]
    /\ UNCHANGED <<ports, next_id, plock, idleclose, orphans, conn, flock,
                   chans, ch_ping, run, keep, kt, silence, user, dns, closing>>

\* s.PutIntoId(ft.Streamid, ch)
SynBind(h) ==
    /\ syn[h].pc = "bind"
    /\ PutIntoId(syn[h].id, syn[h].ch)
    /\ syn' = [syn EXCEPT ![h].pc = "ok_write"]
    /\ chans' = Collect(chans, ports', syn', user, closing)
    /\ UNCHANGED <<conn, flock, ch_ping, run, keep, kt, silence, user, dns,
                   closing>>

\* s.Write(OK(id)) takes flock.
SynOkWriteBegin(h) ==
    /\ syn[h].pc = "ok_write"
    /\ FlockLock(<<"syn", h>>)
    /\ syn' = [syn EXCEPT ![h].pc = "ok_io"]
    /\ UNCHANGED <<ports, next_id, plock, idleclose, orphans, conn, chans,
                   ch_ping, run, keep, kt, silence, user, dns, closing>>

\* The write of OK(id) returns, and the goroutine ends either way.  When
\* OK(id) went out, the stream that on_conn set up is open to the peer.
SynOkWriteEnd(h) ==
    /\ syn[h].pc = "ok_io"
    /\ FlockUnlock(<<"syn", h>>)
    /\ syn' = IF WriteOk THEN [syn EXCEPT ![h].pc = "open"]
                         ELSE [syn EXCEPT ![h] = IdleSyn]
    /\ chans' = Collect(chans, ports, syn', user, closing)
    /\ UNCHANGED <<ports, next_id, plock, idleclose, orphans, conn, ch_ping,
                   run, keep, kt, silence, user, dns, closing>>

\* The open stream ends: its owner calls s.RemovePorts(id).
SynStreamClose(h) ==
    /\ syn[h].pc = "open"
    /\ RemovePorts(syn[h].id)
    /\ syn' = [syn EXCEPT ![h] = IdleSyn]
    /\ chans' = Collect(chans, ports', syn', user, closing)
    /\ UNCHANGED <<conn, flock, ch_ping, run, keep, kt, silence, user, dns,
                   closing>>

\* s.Write(FAILED(id, ERR_CONNFAILED)) takes flock.
SynFailWriteBegin(h) ==
    /\ syn[h].pc = "fail_write"
    /\ FlockLock(<<"syn", h>>)
    /\ syn' = [syn EXCEPT ![h].pc = "fail_io"]
    /\ UNCHANGED <<ports, next_id, plock, idleclose, orphans, conn, chans,
                   ch_ping, run, keep, kt, silence, user, dns, closing>>

\* The write of FAILED returns: on an error the goroutine returns at once.
SynFailWriteEnd(h) ==
    /\ syn[h].pc = "fail_io"
    /\ FlockUnlock(<<"syn", h>>)
    /\ syn' = IF WriteOk THEN [syn EXCEPT ![h].pc = "fail_remove"]
                         ELSE [syn EXCEPT ![h] = IdleSyn]
    /\ UNCHANGED <<ports, next_id, plock, idleclose, orphans, conn, chans,
                   ch_ping, run, keep, kt, silence, user, dns, closing>>

\* err = s.RemovePorts(ft.Streamid); the error is only logged.
SynFailRemove(h) ==
    /\ syn[h].pc = "fail_remove"
    /\ RemovePorts(syn[h].id)
    /\ syn' = [syn EXCEPT ![h] = IdleSyn]
    /\ chans' = Collect(chans, ports', syn', user, closing)
    /\ UNCHANGED <<conn, flock, ch_ping, run, keep, kt, silence, user, dns,
                   closing>>

\* -------------------------------------------------------------- DNS handler
\* NewFrameAddr(ft.Streamid, ipaddr)
FrameAddr(id, ipaddr) == [type |-> "ADDR", id |-> id, addrs |-> ipaddr]

DnsLookupRepliesFailed(d) ==
    /\ dns[d].pc = "lookup"
    /\ \E lookupErr \in BOOLEAN, encodeErr \in BOOLEAN :
         dns' = IF encodeErr
                THEN [dns EXCEPT ![d] = IdleDns]
                ELSE [dns EXCEPT ![d].pc = "write", ![d].failed = lookupErr,
                                 ![d].frame =
                                     IF lookupErr
                                     THEN [type |-> "FAILED", id |-> dns[d].id]
                                     ELSE FrameAddr(dns[d].id, <<"ip">>)]
    /\ UNCHANGED <<ports, next_id, plock, idleclose, orphans, conn, flock,
                   chans, ch_ping, run, keep, kt, silence, user, syn, closing>>

\* net.LookupIP (an error gives the empty list), then NewFrameAddr, whose
\* error ends the goroutine.
DnsLookup(d) ==
    /\ dns[d].pc = "lookup"
    /\ \E lookupErr \in BOOLEAN, encodeErr \in BOOLEAN :
         LET ipaddr == IF lookupErr THEN <<>> ELSE <<"ip">> IN
         dns' = IF encodeErr
                THEN [dns EXCEPT ![d] = IdleDns]
                ELSE [dns EXCEPT ![d].pc = "write", ![d].failed = lookupErr,
                                 ![d].frame = FrameAddr(dns[d].id, ipaddr)]
    /\ UNCHANGED <<ports, next_id, plock, idleclose, orphans, conn, flock,
                   chans, ch_ping, run, keep, kt, silence, user, syn, closing>>

\* s.Write(ADDR(id, ipaddr)) takes flock.
DnsWriteBegin(d) ==
    /\ dns[d].pc = "write"
    /\ FlockLock(<<"dns", d>>)
    /\ dns' = [dns EXCEPT ![d].pc = "io"]
    /\ UNCHANGED <<ports, next_id, plock, idleclose, orphans, conn, chans,
                   ch_ping, run, keep, kt, silence, user, syn, closing>>

\* The write returns; its error is only logged.
DnsWriteEnd(d) ==
    /\ dns[d].pc = "io"
    /\ FlockUnlock(<<"dns", d>>)
    /\ dns' = [dns EXCEPT ![d] = IdleDns]
    /\ UNCHANGED <<ports, next_id, plock, idleclose, orphans, conn, chans,
                   ch_ping, run, keep, kt, silence, user, syn, closing>>

\* -------------------------------------------------------- keepalive monitor
\* The select of keep_eye_open can take <-s.ch_ping.
KeepCanRecv == keep = "select" /\ ch_ping > 0

KeepTimedOutLate == keep = "select" /\ kt >= 7 * PINGTIME

\* time.After(6 * PINGTIME) has fired.
KeepTimedOut == keep = "select" /\ kt >= Deadline

\* time.Sleep(PINGTIME) is over.
KeepSlept == keep = "sleep" /\ kt >= PINGTIME

\* case <-s.ch_ping, and the PING loop that drains the channel.
KeepRecv ==
    /\ KeepCanRecv
    /\ ch_ping' = 0
    /\ keep' = "sleep"
    /\ kt' = 0
    /\ silence' = 0
    /\ UNCHANGED <<ports, next_id, plock, idleclose, orphans, conn, flock,
                   chans, run, user, syn, dns, closing>>

\* case <-timeout: s.Close(); return.
KeepTimeout ==
    /\ KeepTimedOut
    /\ keep' = "close"
    /\ kt' = 0
    /\ closing' = [closing EXCEPT !["keep"] = CloseStart(ports)]
    /\ UNCHANGED <<ports, next_id, plock, idleclose, orphans, conn, flock,
                   chans, ch_ping, run, silence, user, syn, dns>>

\* time.Sleep(PINGTIME) returns.
KeepWake ==
    /\ KeepSlept
    /\ keep' = "write"
    /\ kt' = 0
    /\ UNCHANGED <<ports, next_id, plock, idleclose, orphans, conn, flock,
                   chans, ch_ping, run, silence, user, syn, dns, closing>>

\* s.Write(PING) takes flock.
KeepWriteBegin ==
    /\ keep = "write"
    /\ FlockLock(<<"keep", 0>>)
    /\ keep' = "io"
    /\ UNCHANGED <<ports, next_id, plock, idleclose, orphans, conn, chans,
                   ch_ping, run, kt, silence, user, syn, dns, closing>>

\* The write returns (its error is only logged); the loop starts over with a
\* new time.After(6 * PINGTIME).
KeepWriteEnd ==
    /\ keep = "io"
    /\ FlockUnlock(<<"keep", 0>>)
    /\ keep' = "select"
    /\ kt' = 0
    /\ UNCHANGED <<ports, next_id, plock, idleclose, orphans, conn, chans,
                   ch_ping, run, silence, user, syn, dns, closing>>

\* --------------------------------------------------------------------- time
\* d ticks pass.  A goroutine that a channel or a timer has made runnable
\* runs before the next tick.
Advance(d) ==
    /\ ~KeepCanRecv /\ ~KeepTimedOut /\ ~KeepSlept
    /\ kt' = IF keep \in {"select", "sleep"} THEN kt + d ELSE kt
    /\ silence' = Min(silence + d, SilenceCap)
    /\ UNCHANGED <<ports, next_id, plock, idleclose, orphans, conn, flock,
                   chans, ch_ping, run, keep, user, syn, dns, closing>>

Tick == Advance(1)

\* Time passes until the monitor's timer is due.
TimerDue ==
    /\ keep \in {"select", "sleep"}
    /\ Advance((IF keep = "select" THEN Deadline ELSE PINGTIME) - kt)

\* ----------------------------------------------------------- specification
Init ==
    /\ ports = << >>
    /\ next_id = 0
    /\ plock = FALSE
    /\ idleclose = "nil"
    /\ orphans = 0
    /\ conn = "open"
    /\ flock = NoOne
    /\ chans = [c \in ChanIds |-> EmptyChan]
    /\ ch_ping = 1
    /\ run = [pc |-> "read", id |-> 0]
    /\ keep = "select"
    /\ kt = 0
    /\ silence = 0
    /\ user = IdleUser
    /\ syn = [h \in 1 .. MaxSyn |-> IdleSyn]
    /\ dns = [d \in 1 .. MaxDns |-> IdleDns]
    /\ closing = [w \in Closers |-> NotClosing]

UserNext ==
    \/ UserAllocBegin
    \/ UserAllocScan
    \/ \E id \in Ids : UserRemove(id)

RunNext ==
    \/ RunReadErr
    \/ \E k \in StreamKinds, id \in Ids : RunRoute(k, id)
    \/ RunRemove
    \/ \E id \in Ids : RunSynCheck(id)
    \/ RunSynReserve
    \/ RunSynWriteBegin
    \/ RunSynWriteEnd

SynNext ==
    \E h \in DOMAIN syn :
        \/ SynConnect(h)
        \/ SynBind(h)
        \/ SynOkWriteBegin(h)
        \/ SynOkWriteEnd(h)
        \/ SynStreamClose(h)
        \/ SynFailWriteBegin(h)
        \/ SynFailWriteEnd(h)
        \/ SynFailRemove(h)

DnsNext ==
    \E d \in DOMAIN dns : DnsLookup(d) \/ DnsWriteBegin(d) \/ DnsWriteEnd(d)

KeepNext ==
    \/ KeepRecv
    \/ KeepTimeout
    \/ KeepWake
    \/ KeepWriteBegin
    \/ KeepWriteEnd

\* The stream table, the dispatch loop and the SYN handshake, with the
\* streams' owners, the idle-close timer and the transport around them.
Next ==
    \/ UserNext
    \/ RunNext
    \/ SynNext
    \/ CloseNext("run") \/ CloseSend("run") \/ CloseEnd("run")
    \/ \E c \in ChanIds : ConsumerRecv(c)
    \/ IdleFire
    \/ ConnFail

Spec == Init /\ [][Next]_vars

\* The allocator alone, with the goroutine inside PutIntoNextId kept running.
NextAlloc ==
    \/ UserNext
    \/ IdleFire
    \/ ConnFail

SpecAlloc == Init /\ [][NextAlloc]_vars /\ WF_vars(UserAllocScan)

\* Every caller of Session.Write.
NextWrite ==
    \/ \E id \in Ids : RunSynCheck(id)
    \/ RunSynReserve
    \/ RunSynWriteBegin
    \/ RunSynWriteEnd
    \/ \E id \in Ids : RunDns(id)
    \/ RunPing
    \/ SynNext
    \/ DnsNext
    \/ KeepNext
    \/ TimerDue
    \/ ConnFail

SpecWrite == Init /\ [][NextWrite]_vars

\* The keepalive monitor against the clock and the PING frames.
NextKeep ==
    \/ RunPing
    \/ KeepNext
    \/ CloseEnd("keep")
    \/ Tick
    \/ ConnFail

SpecKeep == Init /\ [][NextKeep]_vars

\* Close called by the dispatch loop on its exit and by an external caller,
\* with the SYN handshake going on.
NextClose ==
    \/ UserNext
    \/ UserClose
    \/ RunReadErr
    \/ \E id \in Ids : RunSynCheck(id)
    \/ RunSynReserve
    \/ RunSynWriteBegin
    \/ RunSynWriteEnd
    \/ SynNext
    \/ \E w \in Closers : CloseNext(w) \/ CloseSend(w) \/ CloseEnd(w)
    \/ \E c \in ChanIds : ConsumerRecv(c)

SpecClose == Init /\ [][NextClose]_vars

\* ------------------------------------------------------------------ claims
\* PutIntoNextId returns: the step that leaves its scan.
AllocReturns == user.pc = "scan" /\ user'.pc = "idle"

\* ... with an id (the entry it inserted), not with the error.
AllocInserts == AllocReturns /\ ports' # ports

\* C1: PutIntoNextId never returns an id that is present in the stream table:
\* the id it returns (s.next_id as the scan left it) was absent, the queue is
\* inserted at that id, and no entry already in the table is replaced.
C1_AllocatedIdWasFree ==
    [][AllocInserts =>
         /\ next_id \notin DOMAIN ports
         /\ ports' = MapPut(ports, next_id, user.ch)
         /\ \A i \in DOMAIN ports : ports'[i] = ports[i]]_vars

\* The scan started at an id in use, stepped past it around the end of the
\* id space and stands at a free id, which it is about to return.
C1_Witness ==
    /\ user.pc = "scan"
    /\ user.start \in DOMAIN ports
    /\ next_id < user.start
    /\ next_id \notin DOMAIN ports

\* C2: PutIntoNextId always terminates; with every id present it returns the
\* error and leaves the table unchanged, otherwise it returns an id that was
\* free and inserts the given queue at that id.
C2_AllocTerminates ==
    /\ (user.pc = "scan") ~> (user.pc = "idle")
    /\ [][AllocReturns =>
            IF DOMAIN ports = Ids
            THEN ports' = ports
            ELSE /\ next_id \notin DOMAIN ports
                 /\ ports' = MapPut(ports, next_id, user.ch)]_vars

\* PutIntoNextId is scanning a table in which every id is present.
C2_Witness == user.pc = "scan" /\ DOMAIN ports = Ids

\* C3: the idle-close timer never fires while the stream table is non-empty.
C3_TimerFiresOnlyWhenEmpty == [][IdleFire => DOMAIN ports = {}]_vars

PendingTimers == (IF idleclose = "pending" THEN 1 ELSE 0) + orphans

\* C4: in every reachable state at most one idle-close timer is pending.
C4_AtMostOneTimer == PendingTimers <= 1

\* The callers that are inside s.conn.Write.
InConnWrite ==
    (IF run.pc = "syn_io" THEN {<<"run", 0>>} ELSE {})
        \cup (IF keep = "io" THEN {<<"keep", 0>>} ELSE {})
        \cup {<<"syn", h>> : h \in {g \in DOMAIN syn : syn[g].pc \in {"ok_io", "fail_io"}}}
        \cup {<<"dns", d>> : d \in {e \in DOMAIN dns : dns[e].pc = "io"}}

\* The callers of Session.Write that wait for flock.
AwaitingFlock ==
    (IF run.pc = "syn_write" THEN {<<"run", 0>>} ELSE {})
        \cup (IF keep = "write" THEN {<<"keep", 0>>} ELSE {})
        \cup {<<"syn", h>> : h \in {g \in DOMAIN syn : syn[g].pc \in {"ok_write", "fail_write"}}}
        \cup {<<"dns", d>> : d \in {e \in DOMAIN dns : dns[e].pc = "write"}}

\* C5: at most one caller of Session.Write is inside the transport write at
\* any time, and it is the holder of flock.
C5_OneWriter ==
    /\ Cardinality(InConnWrite) <= 1
    /\ \A w \in InConnWrite : flock = w

\* One caller is inside the write while two others wait for the lock.
C5_Witness == Cardinality(InConnWrite) = 1 /\ Cardinality(AwaitingFlock) >= 2

\* C6: when the frame's queue is full the frame is dropped, the entry is
\* removed and the dispatch loop goes on to the next frame.
C6_FullQueueLoopGoesOn ==
    [][(run.pc = "remove" /\ run'.pc # "remove") =>
         (run'.pc = "read" /\ run.id \notin DOMAIN ports')]_vars

C8_SynExistsNeverFatal ==
    [][(run.pc = "syn_io" /\ run'.pc # "syn_io") => run'.pc = "read"]_vars

\* C8 as amended: a SYN whose id on_syn finds in the table leads to the write
\* of FAILED(id-exists) and to nothing else: no step of it changes the table
\* or starts a connect goroutine; the loop goes on to the next frame when the
\* write succeeds, and ends (closing the session) when the write fails.
C8_SynExists ==
    [][/\ (run.pc = "read" /\ run'.pc = "syn_reserve") =>
              run'.id \notin DOMAIN ports
       /\ (run.pc = "read" /\ run'.pc = "syn_write") =>
              (run'.id \in DOMAIN ports /\ ports' = ports /\ syn' = syn)
       /\ (run.pc = "syn_write" /\ run'.pc # "syn_write") =>
              (run'.pc = "syn_io" /\ ports' = ports /\ syn' = syn)
       /\ (run.pc = "syn_io" /\ run'.pc # "syn_io") =>
              /\ ports' = ports /\ syn' = syn
              /\ run'.pc = (IF conn = "open" THEN "read" ELSE "close")
      ]_vars

\* The FAILED(id-exists) reply is being written to a transport that fails.
C8_Witness == run.pc = "syn_io" /\ conn # "open" /\ run.id \in DOMAIN ports

\* C9: a connect goroutine whose connect failed leaves the id absent from the
\* table when it ends.
C9_FailedConnectFreesId ==
    [][\A h \in DOMAIN syn :
         (syn[h].pc \in {"fail_write", "fail_io", "fail_remove"}
              /\ syn'[h].pc = "idle")
           => syn[h].id \notin DOMAIN ports']_vars

\* C10 as stated: every frame for the id that the dispatch loop routes after
\* OK(id) was written is enqueued on the stream's real queue.
C10_EveryFrameAfterOkQueued ==
    [][\A h \in DOMAIN syn, k \in StreamKinds :
         (syn[h].pc = "open" /\ RunRoute(k, syn[h].id))
           => chans'[syn[h].ch] = Append(chans[syn[h].ch], k)]_vars

\* C10 as amended: the goroutine comes to write OK(id) only by the step that
\* binds its real queue in the table, and a frame for the id routed after
\* OK(id) was written is enqueued on that queue whenever the table still
\* holds that queue for the id and the queue has room.
C10_BoundBeforeOk ==
    [][\A h \in DOMAIN syn :
         /\ (syn[h].pc # "ok_write" /\ syn'[h].pc = "ok_write") =>
               /\ syn[h].pc = "bind"
               /\ syn'[h].id \in DOMAIN ports'
               /\ ports'[syn'[h].id] = syn'[h].ch
               /\ syn'[h].ch # Nil
         /\ (syn[h].pc # "ok_io" /\ syn'[h].pc = "ok_io") => syn[h].pc = "ok_write"
         /\ (syn[h].pc # "open" /\ syn'[h].pc = "open") => syn[h].pc = "ok_io"
         /\ \A k \in StreamKinds :
              (/\ syn[h].pc = "open"
               /\ RunRoute(k, syn[h].id)
               /\ syn[h].id \in DOMAIN ports
               /\ ports[syn[h].id] = syn[h].ch
               /\ HasRoom(syn[h].ch))
                => chans'[syn[h].ch] = Append(chans[syn[h].ch], k)]_vars

\* OK(id) was written, the table holds the real queue, a frame is queued.
C10_Witness ==
    \E h \in DOMAIN syn :
        /\ syn[h].pc = "open"
        /\ syn[h].id \in DOMAIN ports
        /\ ports[syn[h].id] = syn[h].ch
        /\ chans[syn[h].ch] # <<>>

\* C11: the teardown happens once, however many callers invoke Close: no
\* table entry is sent the sentinel by two calls of Close, and no two calls
\* of Close get to close the transport.
C11_TeardownOnce ==
    \A w \in Closers, v \in Closers :
        w # v =>
            /\ closing[w].seen \cap closing[v].seen = {}
            /\ ~(closing[w].pc = "done" /\ closing[v].pc = "done")

\* C12: Close sends the sentinel with a non-blocking attempt: no caller of
\* Close is ever blocked in the send to a full queue or to a placeholder.
C12_CloseNeverBlocks == \A w \in Closers : closing[w].pc # "send"

\* C13: a DNS request whose lookup failed is answered with ADDR for the
\* requested id with an empty address list (never FAILED), and no step of
\* the DNS goroutine, an encoding or write error included, closes the
\* session or moves the dispatch loop.
C13_DnsReply ==
    /\ [](\A d \in DOMAIN dns :
            (dns[d].pc \in {"write", "io"} /\ dns[d].failed) =>
                dns[d].frame = [type |-> "ADDR", id |-> dns[d].id, addrs |-> <<>>])
    /\ [][\A d \in DOMAIN dns :
            /\ (dns[d].pc = "lookup" /\ dns'[d].pc = "write") =>
                   (dns'[d].frame.type = "ADDR" /\ dns'[d].frame.id = dns[d].id)
            /\ dns'[d] # dns[d] /\ dns[d].pc # "idle" =>
                   UNCHANGED <<run, closing, conn, ports>>]_vars

\* The ADDR reply with the empty list is being written and the write fails.
C13_Witness ==
    \E d \in DOMAIN dns :
        /\ dns[d].pc = "io"
        /\ dns[d].failed
        /\ conn # "open"
        /\ run.pc = "read"

\* C14 as stated: whenever the enqueue finds the queue full, the dispatch loop
\* terminates (and the session is closed).
C14_OverflowFatal ==
    [][(run.pc = "remove" /\ run'.pc # "remove") => run'.pc = "close"]_vars

\* C14 as amended: the dispatch loop comes to remove an id only for a frame
\* whose entry cannot take it, which it drops; the overflow ends the loop
\* (and starts Close) only when RemovePorts finds the id gone, and otherwise
\* the entry is removed and the loop goes on.
C14_OverflowRemoves ==
    [][/\ (run.pc = "read" /\ run'.pc = "remove") =>
              /\ run'.id \in DOMAIN ports
              /\ ~HasRoom(ports[run'.id])
              /\ chans' = chans
       /\ (run.pc = "remove" /\ run'.pc # "remove") =>
              IF run.id \in DOMAIN ports
              THEN /\ run'.pc = "read"
                   /\ ports' = MapDelete(ports, run.id)
                   /\ closing' = closing
              ELSE /\ run'.pc = "close"
                   /\ ports' = ports
                   /\ closing'["run"].pc = "range"
      ]_vars

\* The loop is about to remove the entry of a real queue that is full.
C14_Witness ==
    /\ run.pc = "remove"
    /\ run.id \in DOMAIN ports
    /\ ports[run.id] # Nil
    /\ Len(chans[ports[run.id]]) = Capacity(ports[run.id])

\* A read of the table made without plock: the lookup of sendFrameInChan, the
\* existence check of on_syn, the range of Close.
UnlockedRead ==
    \/ \E k \in StreamKinds, id \in Ids : RunRoute(k, id)
    \/ \E id \in Ids : RunSynCheck(id)
    \/ CloseNext("run")

\* C15: no two tasks access the stream table at the same time: no read of the
\* table happens while another task holds plock for its own operation.
C15_TableAccessExclusive == [][UnlockedRead => ~plock]_vars

\* C16: an insert replaces an entry that is in the table only when the entry
\* is a placeholder and the insert is the rebinding by the connect goroutine
\* of that id.
C16_NoInsertReplaces ==
    [][\A id \in DOMAIN ports \cap DOMAIN ports' :
         ports'[id] # ports[id] =>
             /\ ports[id] = Nil
             /\ \E h \in DOMAIN syn :
                    /\ syn[h].pc = "bind"
                    /\ syn[h].id = id
                    /\ ports'[id] = syn[h].ch]_vars

\* C17: no step of the dispatch loop removes the reservation of an id whose
\* connect callback is in flight.
C17_ReservationStays ==
    [][run' # run =>
         \A h \in DOMAIN syn :
             (syn[h].pc = "connect" /\ syn[h].id \in DOMAIN ports)
                 => syn[h].id \in DOMAIN ports']_vars

C19_AbsentIdNoEffect ==
    [][(\E k \in StreamKinds, id \in Ids :
            id \notin DOMAIN ports /\ RunRoute(k, id))
         => UNCHANGED vars]_vars

\* The dispatch loop can read a frame for an absent id while another id has
\* a queue that holds a frame and the idle-close timer is pending.
C19_Witness ==
    /\ run.pc = "read"
    /\ conn # "closed"
    /\ DOMAIN ports # {}
    /\ DOMAIN ports # Ids
    /\ idleclose = "pending"
    /\ \E id \in DOMAIN ports : ports[id] # Nil /\ chans[ports[id]] # <<>>

\* C20: when a call of Close has finished, every queue that a connect
\* goroutine has bound in the table was offered the sentinel by that call.
C20_BoundQueuesSignalled ==
    \A w \in Closers :
        closing[w].pc = "done" =>
            \A h \in DOMAIN syn :
                (/\ syn[h].pc \in {"ok_write", "ok_io", "open"}
                 /\ syn[h].id \in DOMAIN ports
                 /\ ports[syn[h].id] = syn[h].ch)
                    => syn[h].id \in closing[w].seen

====
